---- MODULE Spec2Model ----
(***************************************************************************)
(* AWSWellArchitected compliance output of prowler                         *)
(* (prowler/lib/outputs/compliance/aws_well_architected/                   *)
(* aws_well_architected.py): transform() flattens findings into rows of    *)
(* the accumulated list _data, batch_write_data_to_file() serialises _data *)
(* to the file descriptor and closes it.                                   *)
(***************************************************************************)
EXTENDS Integers, Sequences, FiniteSets, TLC

VARIABLES
    data,        \* self._data: the accumulated rows
    fd,          \* self._file_descriptor: "absent" (unset or None), "open", "closed"
    file,        \* the lines the csv writer has handed to the destination, in order
    serialized,  \* history: for every row line of file, the index in data of its row
    prov,        \* history: for every row of data, the loop iteration that appended it
    args,        \* history: the last transform call, its arguments, the length
                 \*   of data when it began and how it ended
    last         \* history: the last call and, of a write, whether it entered
                 \*   the if body, where it failed, how it ended, what it logged

vars == <<data, fd, file, serialized, prov, args, last>>

-----------------------------------------------------------------------------
(* Bounds of the model *)

\* longest findings list handed to one transform call
MaxFindings == 2
\* Spec stops calling transform once _data holds this many rows
MaxData == 3
\* Spec stops starting writes once the destination holds this many lines
MaxFile == 4

-----------------------------------------------------------------------------
(* Python helpers *)

\* dict.get(key, default)
DictGet(d, key, default) == IF key \in DOMAIN d THEN d[key] ELSE default

\* x in list
InList(x, list) == \E i \in DOMAIN list : list[i] = x

\* str(finding.timestamp): the text of the timestamp, not the timestamp
Str(t) == ToString(t)

\* str.lower() on the provider names the frameworks use
Lower(s) ==
    CASE s = "AWS" -> "aws"
      [] s = "Aws" -> "aws"
      [] OTHER     -> s

\* str.upper() on the field names of AWSWellArchitectedModel
UpperTable ==
    [ Provider |-> "PROVIDER",
      Description |-> "DESCRIPTION",
      AccountId |-> "ACCOUNTID",
      Region |-> "REGION",
      AssessmentDate |-> "ASSESSMENTDATE",
      Requirements_Id |-> "REQUIREMENTS_ID",
      Requirements_Description |-> "REQUIREMENTS_DESCRIPTION",
      Requirements_Attributes_Name |-> "REQUIREMENTS_ATTRIBUTES_NAME",
      Requirements_Attributes_WellArchitectedQuestionId |-> "REQUIREMENTS_ATTRIBUTES_WELLARCHITECTEDQUESTIONID",
      Requirements_Attributes_WellArchitectedPracticeId |-> "REQUIREMENTS_ATTRIBUTES_WELLARCHITECTEDPRACTICEID",
      Requirements_Attributes_Section |-> "REQUIREMENTS_ATTRIBUTES_SECTION",
      Requirements_Attributes_SubSection |-> "REQUIREMENTS_ATTRIBUTES_SUBSECTION",
      Requirements_Attributes_LevelOfRisk |-> "REQUIREMENTS_ATTRIBUTES_LEVELOFRISK",
      Requirements_Attributes_AssessmentMethod |-> "REQUIREMENTS_ATTRIBUTES_ASSESSMENTMETHOD",
      Requirements_Attributes_Description |-> "REQUIREMENTS_ATTRIBUTES_DESCRIPTION",
      Requirements_Attributes_ImplementationGuidanceUrl |-> "REQUIREMENTS_ATTRIBUTES_IMPLEMENTATIONGUIDANCEURL",
      Status |-> "STATUS",
      StatusExtended |-> "STATUSEXTENDED",
      ResourceId |-> "RESOURCEID",
      ResourceName |-> "RESOURCENAME",
      CheckId |-> "CHECKID",
      Muted |-> "MUTED" ]

Upper(k) == UpperTable[k]

-----------------------------------------------------------------------------
(* transform: the rows *)

\* the row of lines 48-71: one finding, one requirement, one attribute
FindingRow(finding, compliance, requirement, attribute) ==
    [ Provider |-> finding.provider,
      Description |-> compliance.Description,
      AccountId |-> finding.account_uid,
      Region |-> finding.region,
      AssessmentDate |-> Str(finding.timestamp),
      Requirements_Id |-> requirement.Id,
      Requirements_Description |-> requirement.Description,
      Requirements_Attributes_Name |-> attribute.Name,
      Requirements_Attributes_WellArchitectedQuestionId |-> attribute.WellArchitectedQuestionId,
      Requirements_Attributes_WellArchitectedPracticeId |-> attribute.WellArchitectedPracticeId,
      Requirements_Attributes_Section |-> attribute.Section,
      Requirements_Attributes_SubSection |-> attribute.SubSection,
      Requirements_Attributes_LevelOfRisk |-> attribute.LevelOfRisk,
      Requirements_Attributes_AssessmentMethod |-> attribute.AssessmentMethod,
      Requirements_Attributes_Description |-> attribute.Description,
      Requirements_Attributes_ImplementationGuidanceUrl |-> attribute.ImplementationGuidanceUrl,
      Status |-> finding.status,
      StatusExtended |-> finding.status_extended,
      ResourceId |-> finding.resource_uid,
      ResourceName |-> finding.resource_name,
      CheckId |-> finding.check_id,
      Muted |-> finding.muted ]

\* ManualRow gone wrong: the finding's row with the placeholders pasted over it,
\* the account and the region left in
ManualRow_AccountKept(finding, compliance, requirement, attribute) ==
    [ FindingRow(finding, compliance, requirement, attribute) EXCEPT
        !.Provider = Lower(compliance.Provider),
        !.Status = "MANUAL",
        !.StatusExtended = "Manual check",
        !.ResourceId = "manual_check",
        !.ResourceName = "Manual check",
        !.CheckId = "manual",
        !.Muted = FALSE ]

\* the row of lines 77-100: a requirement without checks, one attribute; finding
\* is the loop variable of line 42, read after its loop at line 82
ManualRow(finding, compliance, requirement, attribute) ==
    [ Provider |-> Lower(compliance.Provider),
      Description |-> compliance.Description,
      AccountId |-> "",
      Region |-> "",
      AssessmentDate |-> Str(finding.timestamp),
      Requirements_Id |-> requirement.Id,
      Requirements_Description |-> requirement.Description,
      Requirements_Attributes_Name |-> attribute.Name,
      Requirements_Attributes_WellArchitectedQuestionId |-> attribute.WellArchitectedQuestionId,
      Requirements_Attributes_WellArchitectedPracticeId |-> attribute.WellArchitectedPracticeId,
      Requirements_Attributes_Section |-> attribute.Section,
      Requirements_Attributes_SubSection |-> attribute.SubSection,
      Requirements_Attributes_LevelOfRisk |-> attribute.LevelOfRisk,
      Requirements_Attributes_AssessmentMethod |-> attribute.AssessmentMethod,
      Requirements_Attributes_Description |-> attribute.Description,
      Requirements_Attributes_ImplementationGuidanceUrl |-> attribute.ImplementationGuidanceUrl,
      Status |-> "MANUAL",
      StatusExtended |-> "Manual check",
      ResourceId |-> "manual_check",
      ResourceName |-> "Manual check",
      CheckId |-> "manual",
      Muted |-> FALSE ]

-----------------------------------------------------------------------------
(* transform: the loops.  A step of a loop is <<"row", row, origin>>, a row   *)
(* handed to self._data.append with the iteration it comes from, or           *)
(* <<"raise">>, an iteration whose row cannot be built.                       *)

\* line 44: the requirement ids the finding satisfies for this framework
FindingRequirements(finding, compliance_name) ==
    DictGet(finding.compliance, compliance_name, <<>>)

\* Satisfies gone wrong: only the first id the finding lists counts
Satisfies_FirstIdOnly(requirement, finding_requirements) ==
    /\ finding_requirements # << >>
    /\ requirement.Id = finding_requirements[1]

\* line 46
Satisfies(requirement, finding_requirements) ==
    InList(requirement.Id, finding_requirements)

\* IsManual gone wrong: the test of line 75 without its not
IsManual_Inverted(requirement) == requirement.Checks # << >>

\* line 75
IsManual(requirement) == requirement.Checks = <<>>

\* AttributeLoop gone wrong: the attributes taken from the last to the first
AttributeLoop_Reversed(finding, fi, compliance, requirement, ri) ==
    [ k \in 1..Len(requirement.Attributes) |->
        LET a == Len(requirement.Attributes) - k + 1
        IN  << "row",
               FindingRow(finding, compliance, requirement, requirement.Attributes[a]),
               [kind |-> "finding", f |-> fi, r |-> ri, a |-> a] >> ]

\* lines 47-72: one row per attribute, in the order of requirement.Attributes
AttributeLoop(finding, fi, compliance, requirement, ri) ==
    [ k \in 1..Len(requirement.Attributes) |->
        << "row",
           FindingRow(finding, compliance, requirement, requirement.Attributes[k]),
           [kind |-> "finding", f |-> fi, r |-> ri, a |-> k] >> ]

\* lines 45-72, from requirement ri on
RECURSIVE RequirementLoop(_, _, _, _, _)
RequirementLoop(finding, fi, compliance, finding_requirements, ri) ==
    IF ri > Len(compliance.Requirements) THEN << >>
    ELSE LET requirement == compliance.Requirements[ri]
         IN  (IF Satisfies(requirement, finding_requirements)
              THEN AttributeLoop(finding, fi, compliance, requirement, ri)
              ELSE << >>)
             \o RequirementLoop(finding, fi, compliance, finding_requirements, ri + 1)

\* lines 42-72, from finding fi on
RECURSIVE FindingLoop(_, _, _, _)
FindingLoop(findings, compliance, compliance_name, fi) ==
    IF fi > Len(findings) THEN << >>
    ELSE LET finding == findings[fi]
         IN  RequirementLoop(finding, fi, compliance,
                             FindingRequirements(finding, compliance_name), 1)
             \o FindingLoop(findings, compliance, compliance_name, fi + 1)

\* LeakedFinding gone wrong: the first finding instead of the last
LeakedFinding_First(findings) == findings[1]

\* the loop variable `finding` of line 42 as line 82 finds it: bound to the
\* last finding once the loop has run
LeakedFinding(findings) == findings[Len(findings)]

\* ManualStep gone wrong: without a finding the row is dated with the empty
\* string instead of raising
ManualStep_NoRaise(findings, compliance, requirement, ri, k) ==
    << "row",
       IF findings = << >>
       THEN [ ManualRow([timestamp |-> 0], compliance, requirement,
                        requirement.Attributes[k]) EXCEPT !.AssessmentDate = "" ]
       ELSE ManualRow(LeakedFinding(findings), compliance, requirement,
                      requirement.Attributes[k]),
       [kind |-> "manual", f |-> 0, r |-> ri, a |-> k] >>

\* lines 77-101 for one attribute: with no finding the name `finding` is unbound
\* and evaluating line 82 raises before the row exists
ManualStep(findings, compliance, requirement, ri, k) ==
    IF findings = << >>
    THEN << "raise" >>
    ELSE << "row",
            ManualRow(LeakedFinding(findings), compliance, requirement,
                      requirement.Attributes[k]),
            [kind |-> "manual", f |-> 0, r |-> ri, a |-> k] >>

\* lines 76-101
ManualAttributeLoop(findings, compliance, requirement, ri) ==
    [ k \in 1..Len(requirement.Attributes) |->
        ManualStep(findings, compliance, requirement, ri, k) ]

\* lines 74-101, from requirement ri on
RECURSIVE ManualLoop(_, _, _)
ManualLoop(findings, compliance, ri) ==
    IF ri > Len(compliance.Requirements) THEN << >>
    ELSE LET requirement == compliance.Requirements[ri]
         IN  (IF IsManual(requirement)
              THEN ManualAttributeLoop(findings, compliance, requirement, ri)
              ELSE << >>)
             \o ManualLoop(findings, compliance, ri + 1)

\* the steps of one call in program order
TransformSteps(findings, compliance, compliance_name) ==
    FindingLoop(findings, compliance, compliance_name, 1)
    \o ManualLoop(findings, compliance, 1)

\* the steps that ran: all of them, or those before the first that raises
StepsRun(steps) ==
    LET raising == {i \in DOMAIN steps : steps[i][1] = "raise"}
    IN  IF raising = {} THEN steps
        ELSE SubSeq(steps, 1, (CHOOSE i \in raising : \A j \in raising : i <= j) - 1)

-----------------------------------------------------------------------------
(* Inputs *)

Attribute(name, question, practice) ==
    [ Name |-> name,
      WellArchitectedQuestionId |-> question,
      WellArchitectedPracticeId |-> practice,
      Section |-> "Security",
      SubSection |-> "Identity",
      LevelOfRisk |-> "High",
      AssessmentMethod |-> "Automated",
      Description |-> "attribute description",
      ImplementationGuidanceUrl |-> "https://docs.aws.amazon.com" ]

A1 == Attribute("A1", "securely-operate", "sec_securely_operate_1")
A2 == Attribute("A2", "securely-operate", "sec_securely_operate_2")
A3 == Attribute("A3", "identities", "sec_identities_1")

Requirement(id, description, checks, attributes) ==
    [Id |-> id, Description |-> description, Checks |-> checks, Attributes |-> attributes]

Compliance(provider, description, requirements) ==
    [Provider |-> provider, Description |-> description, Requirements |-> requirements]

\* R1 has a check and two attributes, R2 is manual with one attribute
FrameworkMixed ==
    Compliance("AWS", "mixed",
        << Requirement("R1", "first", <<"check_1">>, <<A1, A2>>),
           Requirement("R2", "second", << >>, <<A3>>) >>)

\* no manual requirement
FrameworkAutomated ==
    Compliance("AWS", "automated",
        << Requirement("R1", "first", <<"check_1">>, <<A1>>),
           Requirement("R2", "second", <<"check_2">>, <<A2, A3>>) >>)

\* a manual requirement without attributes, and the id R1 used twice
FrameworkRepeated ==
    Compliance("Aws", "repeated",
        << Requirement("R1", "first", << >>, << >>),
           Requirement("R2", "second", <<"check_2">>, <<A2>>),
           Requirement("R1", "first again", <<"check_1">>, <<A1>>) >>)

\* every requirement manual
FrameworkManual ==
    Compliance("aws", "manual",
        << Requirement("R2", "second", << >>, <<A2, A3>>),
           Requirement("R1", "first", << >>, <<A1>>) >>)

Frameworks == {FrameworkMixed, FrameworkAutomated, FrameworkRepeated, FrameworkManual}

ComplianceName == "aws_well_architected_framework_security_pillar_aws"

\* finding.compliance: no entry for the framework, an empty entry, one id, two ids
ComplianceMaps ==
    { ("cis_1.4_aws" :> <<"R1">>),
      (ComplianceName :> << >>),
      (ComplianceName :> <<"R1">>),
      (ComplianceName :> <<"R2", "R1">>) @@ ("cis_1.4_aws" :> <<"R2">>) }

Statuses == {"PASS", "FAIL", "MANUAL"}

\* two instants, as seconds since the epoch
Timestamps == {1704067200, 1704153600}

Finding(timestamp, status, compliance) ==
    [ provider |-> "aws",
      account_uid |-> "123456789012",
      region |-> "eu-west-1",
      timestamp |-> timestamp,
      compliance |-> compliance,
      status |-> status,
      status_extended |-> "status extended",
      resource_uid |-> "arn:aws:s3:::bucket",
      resource_name |-> "bucket",
      check_id |-> "check_1",
      muted |-> FALSE ]

Findings ==
    {Finding(t, s, c) : t \in Timestamps, s \in Statuses, c \in ComplianceMaps}

SeqsUpTo(S, n) == UNION {[1..m -> S] : m \in 0..n}

-----------------------------------------------------------------------------
(* The output object *)

NoArgs ==
    [ called |-> FALSE, findings |-> << >>, compliance |-> Compliance("", "", << >>),
      compliance_name |-> "", start |-> 0, outcome |-> "returned" ]

NoFailure == -1

\* a fresh object: no rows; the descriptor is there or not
Init ==
    /\ data = << >>
    /\ fd \in {"absent", "open"}
    /\ file = << >>
    /\ serialized = << >>
    /\ prov = << >>
    /\ args = NoArgs
    /\ last = [op |-> "init", entered |-> FALSE, fail |-> NoFailure,
               outcome |-> "returned", returns |-> "None", logged |-> 0]

\* lines 25-101
transform(findings, compliance, compliance_name) ==
    LET steps == TransformSteps(findings, compliance, compliance_name)
        run   == StepsRun(steps)
        ended == IF Len(run) < Len(steps) THEN "raised" ELSE "returned"
    IN  /\ data' = data \o [n \in 1..Len(run) |-> run[n][2]]
        /\ prov' = prov \o [n \in 1..Len(run) |-> run[n][3]]
        /\ args' = [called |-> TRUE, findings |-> findings, compliance |-> compliance,
                    compliance_name |-> compliance_name, start |-> Len(data),
                    outcome |-> ended]
        /\ last' = [op |-> "transform", entered |-> FALSE, fail |-> NoFailure,
                    outcome |-> ended, returns |-> "None", logged |-> 0]
        /\ UNCHANGED <<fd, file, serialized>>

\* one transform call on the fresh object, over every input within the bounds
TransformOnce ==
    /\ ~args.called
    /\ \E findings \in SeqsUpTo(Findings, MaxFindings), compliance \in Frameworks :
          transform(findings, compliance, ComplianceName)

InitT == Init /\ fd = "open"

NextT == TransformOnce

SpecT == InitT /\ [][NextT]_vars

-----------------------------------------------------------------------------
(* batch_write_data_to_file *)

\* lines 111-115: the descriptor is set and not None, it is not closed, and
\* there are rows
WriteCondition == fd # "absent" /\ fd # "closed" /\ data # << >>

\* line 118: the field names of the first row, upper-cased
FieldNames(row) == {Upper(k) : k \in DOMAIN row}

\* the field an upper-cased name stands for
FieldOf ==
    [ K \in {UpperTable[k] : k \in DOMAIN UpperTable} |->
        CHOOSE k \in DOMAIN UpperTable : UpperTable[k] = K ]

\* line 124: the dict handed to writerow
UpperDict(row) == [ K \in FieldNames(row) |-> row[FieldOf[K]] ]

\* lines 121-125: the header line, then one line per row of self._data
Lines ==
    IF data = << >> THEN << >>
    ELSE << [kind |-> "header", fieldnames |-> FieldNames(data[1])] >>
         \o [ i \in 1..Len(data) |-> [kind |-> "row", dict |-> UpperDict(data[i])] ]

\* Where the body of the if raises: 0 before the header is out, i in
\* 1..Len(data) in the writerow of row i, Len(data) + 1 in close(), NoFailure
\* nowhere.
FailurePoints == {NoFailure} \cup 0..(Len(data) + 1)

\* What can go wrong is the destination's business, except that a descriptor
\* that is None or closed, or an empty self._data, fails before the header.
PossibleFailures ==
    IF fd = "open" /\ data # << >> THEN FailurePoints ELSE {0}

\* the number of lines that reached the destination
LinesOut(fail, lines) ==
    IF fail = NoFailure \/ fail > Len(lines) THEN Len(lines) ELSE fail

\* DescriptorAfter gone wrong: close() after the if instead of inside it
DescriptorAfter_CloseAfterIf(entered, fail) ==
    IF ~entered THEN {IF fd = "open" THEN "closed" ELSE fd}
    ELSE IF fail = NoFailure THEN {"closed"}
    ELSE IF fail = Len(data) + 1 THEN {"open", "closed"}
    ELSE {fd}

\* line 126, and the paths that do not reach it: close() is the last statement
\* of the if body.  The descriptors the call can leave: a close() that raises
\* leaves the descriptor as the destination decides.
DescriptorAfter(entered, fail) ==
    IF ~entered THEN {fd}
    ELSE IF fail = NoFailure THEN {"closed"}
    ELSE IF fail = Len(data) + 1 THEN {"open", "closed"}
    ELSE {fd}

\* ExceptClause gone wrong: the handler logs and raises again
ExceptClause_Reraises(raised) ==
    [ outcome |-> IF raised THEN "raised" ELSE "returned",
      returns |-> "None",
      logged |-> IF raised THEN 1 ELSE 0 ]

\* lines 127-130: every Exception is caught and logged, the call returns None
ExceptClause(raised) ==
    [outcome |-> "returned", returns |-> "None", logged |-> IF raised THEN 1 ELSE 0]

\* lines 103-130
batch_write_data_to_file ==
    IF WriteCondition
    THEN LET lines == Lines
         IN  \E fail \in PossibleFailures :
                LET n == LinesOut(fail, lines)
                    handled == ExceptClause(fail # NoFailure)
                IN  /\ file' = file \o SubSeq(lines, 1, n)
                    /\ serialized' = serialized \o [i \in 1..(n - 1) |-> i]
                    /\ fd' \in DescriptorAfter(TRUE, fail)
                    /\ last' = [op |-> "write", entered |-> TRUE, fail |-> fail,
                                outcome |-> handled.outcome, returns |-> handled.returns,
                                logged |-> handled.logged]
                    /\ UNCHANGED <<data, prov, args>>
    ELSE LET handled == ExceptClause(FALSE)
         IN  /\ fd' \in DescriptorAfter(FALSE, NoFailure)
             /\ last' = [op |-> "write", entered |-> FALSE, fail |-> NoFailure,
                         outcome |-> handled.outcome, returns |-> handled.returns,
                         logged |-> handled.logged]
             /\ UNCHANGED <<data, file, serialized, prov, args>>

-----------------------------------------------------------------------------
(* The life of one output object: transform and write calls in any order *)

\* the findings of the life-cycle runs: one satisfies R1, one satisfies R2 and
\* R1 and is itself MANUAL
LifeFindings ==
    { Finding(1704067200, "PASS", (ComplianceName :> <<"R1">>)),
      Finding(1704153600, "MANUAL", (ComplianceName :> <<"R2", "R1">>)) }

\* no finding, or one
LifeFindingLists == {<< >>} \cup {<<f>> : f \in LifeFindings}

LifeFrameworks == {FrameworkMixed, FrameworkAutomated}

TransformCall ==
    /\ Len(data) < MaxData
    /\ \E findings \in LifeFindingLists, compliance \in LifeFrameworks :
          transform(findings, compliance, ComplianceName)

WriteCall ==
    /\ Len(file) < MaxFile
    /\ batch_write_data_to_file

Next == TransformCall \/ WriteCall

Spec == Init /\ [][Next]_vars

-----------------------------------------------------------------------------
(* Properties of transform, stated on the rows of the last transform call *)

\* the positions in data of the rows the last transform call appended
Appended == (args.start + 1)..Len(data)

\* the rows of the last call that finding fi gave
RowsOfFinding(fi) == {n \in Appended : prov[n].kind = "finding" /\ prov[n].f = fi}

\* the synthetic rows of the last call for requirement ri
ManualRowsOf(ri) == {n \in Appended : prov[n].kind = "manual" /\ prov[n].r = ri}

\* the attributes of the requirements from position ri on whose Id is in ids
RECURSIVE AttributesSatisfied(_, _, _)
AttributesSatisfied(requirements, ids, ri) ==
    IF ri > Len(requirements) THEN 0
    ELSE (IF \E i \in DOMAIN ids : ids[i] = requirements[ri].Id
          THEN Len(requirements[ri].Attributes) ELSE 0)
         + AttributesSatisfied(requirements, ids, ri + 1)

\* the ids finding fi of the last call lists under the framework's name
IdsOf(fi) ==
    LET c == args.findings[fi].compliance
    IN  IF args.compliance_name \in DOMAIN c THEN c[args.compliance_name] ELSE << >>

\* C1: every finding of the input contributes as many rows as the requirements
\* whose Id it lists have attributes, none when it lists nothing for the
\* framework, and a call with findings ends without an error
C1_RowCount ==
    args.called =>
        /\ \A fi \in DOMAIN args.findings :
              Cardinality(RowsOfFinding(fi))
                  = AttributesSatisfied(args.compliance.Requirements, IdsOf(fi), 1)
        /\ args.findings # << >> => args.outcome = "returned"

\* the scenario of the spec and more: a finding with rows for two requirements
\* next to a finding without an entry for the framework
C1_Witness ==
    /\ args.called
    /\ \E fi \in DOMAIN args.findings : Cardinality(RowsOfFinding(fi)) = 3
    /\ \E fi \in DOMAIN args.findings :
          /\ args.compliance_name \notin DOMAIN args.findings[fi].compliance
          /\ RowsOfFinding(fi) = {}

\* what C2 says of one requirement of the last call's framework
ManualCountRight(ri) ==
    LET requirement == args.compliance.Requirements[ri]
    IN  /\ Cardinality(ManualRowsOf(ri))
              = IF requirement.Checks = << >> THEN Len(requirement.Attributes) ELSE 0
        /\ \A n \in ManualRowsOf(ri) : data[n].Status = "MANUAL"

\* C2 as claimed: after every transform call, whatever the findings, every
\* requirement without checks has one MANUAL row per attribute and every other
\* requirement has none
C2_AsClaimed ==
    args.called => \A ri \in DOMAIN args.compliance.Requirements : ManualCountRight(ri)

\* C2 amended: the same after every transform call that was given at least one
\* finding
C2_ManualRows ==
    (args.called /\ args.findings # << >>)
        => \A ri \in DOMAIN args.compliance.Requirements : ManualCountRight(ri)

\* two manual rows for a requirement that no finding lists
C2_Witness ==
    /\ args.called
    /\ args.findings # << >>
    /\ \E ri \in DOMAIN args.compliance.Requirements :
          /\ Cardinality(ManualRowsOf(ri)) = 2
          /\ \A fi \in DOMAIN args.findings :
                ~ \E i \in DOMAIN IdsOf(fi) :
                     IdsOf(fi)[i] = args.compliance.Requirements[ri].Id

\* the place of a row in the order of C3: finding rows before manual rows
OrderKey(o) == <<IF o.kind = "finding" THEN 0 ELSE 1, o.f, o.r, o.a>>

LexLess(x, y) ==
    \E i \in 1..4 : x[i] < y[i] /\ \A j \in 1..(i - 1) : x[j] = y[j]

\* C3: the rows of one call are in the order of (finding, requirement,
\* attribute), the manual rows after them in the order of (requirement,
\* attribute), and each row is the row of its iteration
C3_Ordering ==
    /\ \A m, n \in Appended : m < n => LexLess(OrderKey(prov[m]), OrderKey(prov[n]))
    /\ \A n \in Appended :
          LET o == prov[n]
              requirement == args.compliance.Requirements[o.r]
          IN  /\ data[n].Requirements_Id = requirement.Id
              /\ data[n].Requirements_Attributes_Name = requirement.Attributes[o.a].Name
              /\ o.kind = "finding" =>
                    data[n].AssessmentDate = Str(args.findings[o.f].timestamp)

\* rows of two findings, the first with two attributes of one requirement, and
\* manual rows behind them
C3_Witness ==
    /\ Len(args.findings) = 2
    /\ \E n \in Appended : prov[n].kind = "finding" /\ prov[n].f = 1 /\ prov[n].a = 2
    /\ \E n \in Appended : prov[n].kind = "finding" /\ prov[n].f = 2
    /\ \E n \in Appended : prov[n].kind = "manual"

\* the requirement and attribute fields of row n are those of the pair of its
\* iteration
FromItsPair(n) ==
    LET requirement == args.compliance.Requirements[prov[n].r]
        attribute == requirement.Attributes[prov[n].a]
        row == data[n]
    IN  /\ row.Requirements_Id = requirement.Id
        /\ row.Requirements_Description = requirement.Description
        /\ row.Requirements_Attributes_Name = attribute.Name
        /\ row.Requirements_Attributes_WellArchitectedQuestionId
              = attribute.WellArchitectedQuestionId
        /\ row.Requirements_Attributes_WellArchitectedPracticeId
              = attribute.WellArchitectedPracticeId
        /\ row.Requirements_Attributes_Section = attribute.Section
        /\ row.Requirements_Attributes_SubSection = attribute.SubSection
        /\ row.Requirements_Attributes_LevelOfRisk = attribute.LevelOfRisk
        /\ row.Requirements_Attributes_AssessmentMethod = attribute.AssessmentMethod
        /\ row.Requirements_Attributes_Description = attribute.Description
        /\ row.Requirements_Attributes_ImplementationGuidanceUrl
              = attribute.ImplementationGuidanceUrl

\* row n has the placeholder fields of the manual pass
Synthetic(n) ==
    /\ prov[n].kind = "manual"
    /\ data[n].ResourceId = "manual_check"
    /\ data[n].CheckId = "manual"
    /\ data[n].AccountId = ""
    /\ data[n].Region = ""

\* C7 as claimed: every row comes from one pair of the framework and every row
\* with Status MANUAL is a synthetic row of the manual pass
C7_AsClaimed ==
    \A n \in Appended :
        /\ FromItsPair(n)
        /\ data[n].Status = "MANUAL" => Synthetic(n)

\* C7 amended: every row comes from one pair of the framework, every row of
\* the manual pass has Status MANUAL and the placeholder fields, and a row with
\* Status MANUAL is such a synthetic row or the row of a finding whose own
\* status is MANUAL
C7_Provenance ==
    \A n \in Appended :
        /\ FromItsPair(n)
        /\ prov[n].kind = "manual" => (data[n].Status = "MANUAL" /\ Synthetic(n))
        /\ data[n].Status = "MANUAL" =>
              \/ Synthetic(n)
              \/ /\ prov[n].kind = "finding"
                 /\ args.findings[prov[n].f].status = "MANUAL"
                 /\ data[n].ResourceId = args.findings[prov[n].f].resource_uid

\* a MANUAL row of a finding next to a synthetic row
C7_Witness ==
    /\ \E n \in Appended : prov[n].kind = "finding" /\ data[n].Status = "MANUAL"
    /\ \E n \in Appended : prov[n].kind = "manual" /\ data[n].Status = "MANUAL"

\* some requirement of the last call's framework has no checks and an attribute
HasManualAttribute ==
    \E ri \in DOMAIN args.compliance.Requirements :
        /\ args.compliance.Requirements[ri].Checks = << >>
        /\ args.compliance.Requirements[ri].Attributes # << >>

\* C9: a transform call without findings raises when the framework has a
\* requirement without checks and with an attribute, returns otherwise, and
\* appends no row either way
C9_EmptyFindings ==
    (args.called /\ args.findings = << >>) =>
        /\ Len(data) = args.start
        /\ args.outcome = IF HasManualAttribute THEN "raised" ELSE "returned"

\* the call raised
C9_Witness ==
    /\ args.called
    /\ args.findings = << >>
    /\ HasManualAttribute
    /\ args.outcome = "raised"
    /\ data = << >>

\* C10: after a call with findings every synthetic row carries the text of the
\* timestamp of the last finding of the input
C10_AssessmentDate ==
    (args.called /\ args.findings # << >>) =>
        \A n \in Appended :
            prov[n].kind = "manual" =>
                data[n].AssessmentDate
                    = ToString(args.findings[Len(args.findings)].timestamp)

\* two manual rows dated by a last finding that gave no row, after a finding
\* of another time that gave rows
C10_Witness ==
    /\ Len(args.findings) = 2
    /\ RowsOfFinding(1) # {}
    /\ RowsOfFinding(2) = {}
    /\ args.findings[1].timestamp # args.findings[2].timestamp
    /\ \E m, n \in Appended :
          /\ m # n
          /\ prov[m].kind = "manual"
          /\ prov[n].kind = "manual"
          /\ data[m].AssessmentDate = data[n].AssessmentDate
          /\ data[m].AssessmentDate = ToString(args.findings[2].timestamp)

-----------------------------------------------------------------------------
(* Properties of batch_write_data_to_file *)

\* C4: a write call that finds the descriptor absent or closed, or no rows,
\* leaves the destination, the descriptor and the rows as they were and returns
C4_NoOp ==
    [][ (last'.op = "write" /\ (fd = "absent" \/ fd = "closed" \/ data = << >>))
            => /\ file' = file
               /\ fd' = fd
               /\ data' = data
               /\ last'.outcome = "returned" ]_vars

\* a write call on a descriptor that an earlier write closed
C4_Witness ==
    /\ last.op = "write"
    /\ ~last.entered
    /\ fd = "closed"
    /\ data # << >>
    /\ file # << >>

\* C5 as claimed: a write call that found an open descriptor and rows leaves
\* the descriptor closed, whether or not a line failed
C5_AsClaimed ==
    (last.op = "write" /\ last.entered) => fd = "closed"

\* C6: a write call returns None and never raises; it logs one diagnostic when
\* something failed and none otherwise
C6_Containment ==
    last.op = "write" =>
        /\ last.outcome = "returned"
        /\ last.returns = "None"
        /\ last.logged = IF last.fail # NoFailure THEN 1 ELSE 0

\* a write that failed after the header and a row were out
C6_Witness ==
    /\ last.op = "write"
    /\ last.fail \in 2..(Len(data) + 1)
    /\ last.outcome = "returned"
    /\ last.logged = 1
    /\ Len(file) >= 2

\* C8 as claimed: no row of data is serialised to the destination twice
C8_AsClaimed ==
    \A m, n \in DOMAIN serialized : m # n => serialized[m] # serialized[n]

====
